---- MODULE Spec2Model ----
(***************************************************************************)
(* A model of bevy_fractal (src/src/main.rs): the view state of the        *)
(* complex plane, the pan and zoom controllers, the resize handler and    *)
(* the change-triggered renderer, scheduled once per Update tick.         *)
(*                                                                         *)
(* Floating point is modelled as binary floating point with round to      *)
(* nearest, ties to even, and gradual underflow, at a reduced significand *)
(* width (MantBits for f64, MantBits32 for f32).  A value is a record     *)
(* [m, e] standing for m * 2^e, kept in canonical form.                   *)
(***************************************************************************)
EXTENDS Integers, Sequences, FiniteSets, TLC

\* ------------------------------------------------------------------------
\* Bounds of the model
\* ------------------------------------------------------------------------

\* significand width of the modelled f64
MantBits == 12

\* significand width of the modelled f32
MantBits32 == 8

\* the least exponent is -MinExp (below it values are subnormal)
MinExp == 24

EMin == 0 - MinExp

\* ------------------------------------------------------------------------
\* Floating-point arithmetic
\* ------------------------------------------------------------------------

Abs(n) == IF n < 0 THEN 0 - n ELSE n

Max2(a, b) == IF a >= b THEN a ELSE b

Min2(a, b) == IF a <= b THEN a ELSE b

Sign(n) == IF n < 0 THEN 0 - 1 ELSE 1

\* number of binary digits of n, 0 <= n < 2^31
BitLen(n) ==
    IF n < 65536
    THEN IF n < 256
         THEN IF n < 16
              THEN IF n < 4 THEN (IF n < 2 THEN n ELSE 2)
                            ELSE (IF n < 8 THEN 3 ELSE 4)
              ELSE IF n < 64 THEN (IF n < 32 THEN 5 ELSE 6)
                             ELSE (IF n < 128 THEN 7 ELSE 8)
         ELSE IF n < 4096
              THEN IF n < 1024 THEN (IF n < 512 THEN 9 ELSE 10)
                               ELSE (IF n < 2048 THEN 11 ELSE 12)
              ELSE IF n < 16384 THEN (IF n < 8192 THEN 13 ELSE 14)
                                ELSE (IF n < 32768 THEN 15 ELSE 16)
    ELSE IF n < 16777216
         THEN IF n < 1048576
              THEN IF n < 262144 THEN (IF n < 131072 THEN 17 ELSE 18)
                                 ELSE (IF n < 524288 THEN 19 ELSE 20)
              ELSE IF n < 4194304 THEN (IF n < 2097152 THEN 21 ELSE 22)
                                  ELSE (IF n < 8388608 THEN 23 ELSE 24)
         ELSE IF n < 268435456
              THEN IF n < 67108864 THEN (IF n < 33554432 THEN 25 ELSE 26)
                                   ELSE (IF n < 134217728 THEN 27 ELSE 28)
              ELSE IF n < 1073741824 THEN (IF n < 536870912 THEN 29 ELSE 30)
                                     ELSE 31

FZero == [m |-> 0, e |-> EMin]

\* a / 2^r for a >= 0, r >= 0, rounded to the nearest integer, ties to even
RoundShift(a, r) ==
    IF r = 0 THEN a
    ELSE IF r > BitLen(a) THEN 0
    ELSE LET q    == a \div (2 ^ r)
             rem  == a % (2 ^ r)
             half == 2 ^ (r - 1)
         IN  IF rem > half \/ (rem = half /\ q % 2 = 1) THEN q + 1 ELSE q

\* the float of p significant bits nearest to mm * 2^ee, in canonical form:
\* the significand has exactly p bits unless the exponent is EMin
Norm(mm, ee, p) ==
    LET a == Abs(mm)
        r == Max2(Max2(BitLen(a) - p, EMin - ee), 0)
    IN  IF a = 0 THEN FZero
        ELSE IF r > 0
        THEN LET q == RoundShift(a, r)
             IN  IF q = 0 THEN FZero
                 ELSE IF q = 2 ^ p
                 THEN [m |-> Sign(mm) * (2 ^ (p - 1)), e |-> ee + r + 1]
                 ELSE [m |-> Sign(mm) * q, e |-> ee + r]
        ELSE LET l == Min2(p - BitLen(a), ee - EMin)
             IN  [m |-> mm * (2 ^ l), e |-> ee - l]

FNeg(a) == [m |-> 0 - a.m, e |-> a.e]

\* a + b rounded to p bits; an operand more than p+1 binades below the
\* other cannot change the rounded sum
FAddP(a, b, p) ==
    LET hi == IF a.e >= b.e THEN a ELSE b
        lo == IF a.e >= b.e THEN b ELSE a
        sh == hi.e - lo.e
    IN  IF lo.m = 0 THEN Norm(hi.m, hi.e, p)
        ELSE IF hi.m = 0 THEN Norm(lo.m, lo.e, p)
        ELSE IF sh > p + 1 THEN hi
        ELSE Norm(hi.m * (2 ^ sh) + lo.m, lo.e, p)

FMulP(a, b, p) == Norm(a.m * b.m, a.e + b.e, p)

\* the quotient, rounded once: the dividend is widened to 2p+2 bits and the
\* bits lost by the integer division are kept as a sticky bit
FDivP(a, b, p) ==
    LET k  == (2 * p + 2) - BitLen(Abs(a.m))
        aa == Abs(a.m) * (2 ^ k)
        bb == Abs(b.m)
        q  == aa \div bb
        st == IF aa % bb = 0 THEN 0 ELSE 1
        sg == Sign(a.m) * Sign(b.m)
    IN  IF a.m = 0 THEN FZero
        ELSE Norm(sg * (2 * q + st), a.e - k - b.e - 1, p)

\* f64 operators
FAdd(a, b) == FAddP(a, b, MantBits)

FSub(a, b) == FAddP(a, FNeg(b), MantBits)

FMul(a, b) == FMulP(a, b, MantBits)

FDiv(a, b) == FDivP(a, b, MantBits)

\* f32 subtraction (Vec2 - Vec2)
FSub32(a, b) == FAddP(a, FNeg(b), MantBits32)

\* an integer literal or pixel count as f64 / as f32
IntToF(n) == Norm(n, 0, MantBits)

IntToF32(n) == Norm(n, 0, MantBits32)

\* `x as f64` for an f32 x: exact, the significand is widened
F32ToF64(a) == Norm(a.m, a.e, MantBits)

\* `x as u32` for a float x: truncation toward zero, negative values give 0
FToU32(a) ==
    IF a.m <= 0 THEN 0
    ELSE IF a.e >= 0 THEN a.m * (2 ^ a.e)
    ELSE IF 0 - a.e >= BitLen(a.m) THEN 0
    ELSE a.m \div (2 ^ (0 - a.e))

\* exact comparison of a.m * 2^a.e with b.m * 2^b.e
FLt(a, b) ==
    IF a.m <= 0 /\ b.m > 0 THEN a.m < 0 \/ b.m > 0
    ELSE IF a.m >= 0 /\ b.m <= 0 THEN FALSE
    ELSE LET ma == BitLen(Abs(a.m)) + a.e
             mb == BitLen(Abs(b.m)) + b.e
             less == IF ma # mb THEN ma < mb
                     ELSE IF a.e >= b.e
                          THEN Abs(a.m) * (2 ^ (a.e - b.e)) < Abs(b.m)
                          ELSE Abs(a.m) < Abs(b.m) * (2 ^ (b.e - a.e))
             more == IF ma # mb THEN ma > mb
                     ELSE IF a.e >= b.e
                          THEN Abs(a.m) * (2 ^ (a.e - b.e)) > Abs(b.m)
                          ELSE Abs(a.m) > Abs(b.m) * (2 ^ (b.e - a.e))
         IN  IF a.m > 0 THEN less ELSE more

FLe(a, b) == ~FLt(b, a)


\* ------------------------------------------------------------------------
\* Values of the program
\* ------------------------------------------------------------------------

\* Option<T>: None is the empty sequence, Some(v) the one-element sequence
None == <<>>

Some(v) == <<v>>

\* Vec2 / DVec2
Vec(x, y) == [x |-> x, y |-> y]

\* a pointer position at whole pixel (px, py), as the Vec2 of f32 an event carries
PixelPos(px, py) == Vec(IntToF32(px), IntToF32(py))

\* a window or event size of w by h logical pixels (f32)
Size(w, h) == [width |-> IntToF32(w), height |-> IntToF32(h)]

\* the f64 literals of the source
F_0_1 == FDiv(IntToF(1), IntToF(10))

F_1_0 == IntToF(1)

F_2_0 == IntToF(2)

\* ComplexPlaneView::default: center (-0.75, 0.0), scale 3.5
DefaultView ==
    [center |-> Vec(FDiv(IntToF(0 - 3), IntToF(4)), FZero),
     scale  |-> FDiv(IntToF(7), IntToF(2))]

\* ------------------------------------------------------------------------
\* handle_zoom
\* ------------------------------------------------------------------------

\* the plane point under cursor_pos (handle_zoom, "Convert cursor position
\* to complex plane coordinates")
CursorComplex(v, win, cursor_pos) ==
    LET w == F32ToF64(win.width)
        h == F32ToF64(win.height)
        aspect_ratio   == FDiv(w, h)
        complex_height == FDiv(v.scale, aspect_ratio)
        complex_x == FAdd(FSub(v.center.x, FDiv(v.scale, F_2_0)),
                          FMul(FDiv(F32ToF64(cursor_pos.x), w), v.scale))
        complex_y == FSub(FAdd(v.center.y, FDiv(complex_height, F_2_0)),
                          FMul(FDiv(F32ToF64(cursor_pos.y), h), complex_height))
    IN  Vec(complex_x, complex_y)

\* zoom_factor = 1.0 - event.y as f64 * 0.1
ZoomFactor(ev_y) == FSub(F_1_0, FMul(F32ToF64(ev_y), F_0_1))

\* ZoomEvent with the center left where it was: only the scale is updated
ZoomEventKeepsCenter(v, win, cursor_pos, ev_y) ==
    [center |-> v.center, scale |-> FMul(v.scale, ZoomFactor(ev_y))]

\* the body of the loop of handle_zoom for one scroll event with a cursor
\* position available
ZoomEvent(v, win, cursor_pos, ev_y) ==
    LET cursor_complex == CursorComplex(v, win, cursor_pos)
        zoom_factor    == ZoomFactor(ev_y)
        new_scale      == FMul(v.scale, zoom_factor)
        new_center ==
            Vec(FSub(cursor_complex.x,
                     FMul(FSub(cursor_complex.x, v.center.x), zoom_factor)),
                FSub(cursor_complex.y,
                     FMul(FSub(cursor_complex.y, v.center.y), zoom_factor)))
    IN  [center |-> new_center, scale |-> new_scale]

RECURSIVE ZoomAllAtOrigin(_, _, _, _)
\* ZoomAll that zooms about pixel (0, 0) when the window has no cursor position
ZoomAllAtOrigin(v, win, cursor, evs) ==
    IF evs = <<>> THEN v
    ELSE ZoomAllAtOrigin(ZoomEvent(v, win, IF cursor # None THEN cursor[1]
                                           ELSE PixelPos(0, 0), Head(evs)),
                         win, cursor, Tail(evs))

RECURSIVE ZoomAll(_, _, _, _)
\* the loop of handle_zoom over the scroll events of the tick, in order
ZoomAll(v, win, cursor, evs) ==
    IF evs = <<>> THEN v
    ELSE ZoomAll(IF cursor # None THEN ZoomEvent(v, win, cursor[1], Head(evs)) ELSE v,
                 win, cursor, Tail(evs))

\* ------------------------------------------------------------------------
\* handle_panning
\* ------------------------------------------------------------------------

\* delta_complex for the drag from last_pos_val to current_pos
DeltaComplex(v, win, last_pos_val, current_pos) ==
    LET dx == FSub32(current_pos.x, last_pos_val.x)
        dy == FSub32(current_pos.y, last_pos_val.y)
        k  == FDiv(v.scale, F32ToF64(win.width))
    IN  Vec(FMul(F32ToF64(dx), k), FMul(F32ToF64(FNeg(dy)), k))

\* view.center -= delta_complex
PanView(v, win, last_pos_val, current_pos) ==
    LET delta_complex == DeltaComplex(v, win, last_pos_val, current_pos)
    IN  [center |-> Vec(FSub(v.center.x, delta_complex.x),
                        FSub(v.center.y, delta_complex.y)),
         scale  |-> v.scale]

\* PanningResult with the first unread event for the last
PanningResultFirstWins(v, lp, is_pressed, evs, win) ==
    IF is_pressed
    THEN IF evs # <<>>
         THEN LET current_pos == evs[1]
              IN  [view     |-> IF lp # None THEN PanView(v, win, lp[1], current_pos) ELSE v,
                   last_pos |-> Some(current_pos),
                   wrote    |-> lp # None]
         ELSE [view |-> v, last_pos |-> lp, wrote |-> FALSE]
    ELSE [view |-> v, last_pos |-> None, wrote |-> FALSE]

\* PanningResult without `*last_pos = Some(current_pos)` once a position is stored
PanningResultKeepsLastPos(v, lp, is_pressed, evs, win) ==
    IF is_pressed
    THEN IF evs # <<>>
         THEN LET current_pos == evs[Len(evs)]
              IN  [view     |-> IF lp # None THEN PanView(v, win, lp[1], current_pos) ELSE v,
                   last_pos |-> IF lp # None THEN lp ELSE Some(current_pos),
                   wrote    |-> lp # None]
         ELSE [view |-> v, last_pos |-> lp, wrote |-> FALSE]
    ELSE [view |-> v, last_pos |-> None, wrote |-> FALSE]

\* handle_panning: evs are the CursorMoved events its reader has not read yet
PanningResult(v, lp, is_pressed, evs, win) ==
    IF is_pressed
    THEN IF evs # <<>>
         THEN LET current_pos == evs[Len(evs)]
              IN  [view     |-> IF lp # None THEN PanView(v, win, lp[1], current_pos) ELSE v,
                   last_pos |-> Some(current_pos),
                   wrote    |-> lp # None]
         ELSE [view |-> v, last_pos |-> lp, wrote |-> FALSE]
    ELSE [view |-> v, last_pos |-> None, wrote |-> FALSE]

\* ------------------------------------------------------------------------
\* on_window_resized and draw_mandelbrot_set
\* ------------------------------------------------------------------------

\* ResizedImage that reallocates the data and leaves the descriptor's size
ResizedImageKeepsSize(img, event) ==
    [width |-> img.width, height |-> img.height,
     len |-> FToU32(event.width) * FToU32(event.height) * 4, kind |-> "resized"]

\* image.resize(new_size) for the last resize event of the tick: the
\* descriptor takes the new size and the data is reallocated to it
ResizedImage(img, event) ==
    LET w == FToU32(event.width)
        h == FToU32(event.height)
    IN  [width |-> w, height |-> h, len |-> w * h * 4, kind |-> "resized"]

\* PixelIndex with the row and the column exchanged
PixelIndexTransposed(x, y, width) == ((x * width) + y) * 4

\* pixel_index = ((y * width) + x) as usize * 4
PixelIndex(x, y, width) == ((y * width) + x) * 4

\* the byte ranges [lo, hi) a render pass writes
RenderWrites(img) ==
    { [lo |-> PixelIndex(x, y, img.width), hi |-> PixelIndex(x, y, img.width) + 4] :
        x \in 0 .. (img.width - 1), y \in 0 .. (img.height - 1) }

\* a slice outside the buffer makes the render pass panic
RenderPanics(img) == \E wr \in RenderWrites(img) : wr.hi > img.len


\* ------------------------------------------------------------------------
\* draw_mandelbrot_set: the work on one pixel
\* ------------------------------------------------------------------------

MAX_ITERATIONS == 512

\* the NaN of the arithmetic: the one value outside the canonical form.
\* The renderer divides by (width - 1) as f64, which is 0.0 for width 1.
FNaN == [m |-> 0, e |-> EMin - 1]

IsNaN(a) == a = FNaN

\* f64 operators that propagate NaN
NAdd(a, b) == IF IsNaN(a) \/ IsNaN(b) THEN FNaN ELSE FAdd(a, b)

NSub(a, b) == IF IsNaN(a) \/ IsNaN(b) THEN FNaN ELSE FSub(a, b)

NMul(a, b) == IF IsNaN(a) \/ IsNaN(b) THEN FNaN ELSE FMul(a, b)

\* a / b where b may be 0.0: 0.0 / 0.0 is NaN.  A nonzero a over 0.0 (an
\* infinity) is not produced by the renderer: its only divisors that can
\* be 0.0 are (width - 1) as f64 and (height - 1) as f64, and the dividend
\* is then (x - 0.0) * d with x <= width - 1 = 0.
NDiv(a, b) ==
    IF IsNaN(a) \/ IsNaN(b) \/ (a.m = 0 /\ b.m = 0) THEN FNaN ELSE FDiv(a, b)

\* a < b, false when either is NaN
NLt(a, b) == ~IsNaN(a) /\ ~IsNaN(b) /\ FLt(a, b)

F_4_0 == IntToF(4)

\* map_range with out_min and out_max exchanged
MapRangeReversed(val, in_min, in_max, out_min, out_max) ==
    NAdd(NDiv(NMul(NSub(val, in_min), NSub(out_min, out_max)),
              NSub(in_max, in_min)),
         out_max)

\* map_range
MapRange(val, in_min, in_max, out_min, out_max) ==
    NAdd(NDiv(NMul(NSub(val, in_min), NSub(out_max, out_min)),
              NSub(in_max, in_min)),
         out_min)

\* x_min, x_max, y_min, y_max of a render pass on a width x height buffer
\* with width, height >= 1
RenderBounds(v, width, height) ==
    LET aspect_ratio == FDiv(IntToF(width), IntToF(height))
        y_scale      == FDiv(v.scale, aspect_ratio)
    IN  [x_min |-> FSub(v.center.x, FDiv(v.scale, F_2_0)),
         x_max |-> FAdd(v.center.x, FDiv(v.scale, F_2_0)),
         y_min |-> FSub(v.center.y, FDiv(y_scale, F_2_0)),
         y_max |-> FAdd(v.center.y, FDiv(y_scale, F_2_0))]

\* cx and cy of pixel (x, y); the loops give 0 <= x < width, 0 <= y < height
PixelPlane(v, width, height, x, y) ==
    LET b == RenderBounds(v, width, height)
    IN  Vec(MapRange(IntToF(x), FZero, IntToF(width - 1), b.x_min, b.x_max),
            MapRange(IntToF(y), FZero, IntToF(height - 1), b.y_max, b.y_min))

\* the state of the body of the pixel loops before the while loop: zx, zy, i
\* are 0
PixelStart(x, y, c, in_max) ==
    [x |-> x, y |-> y, in_max |-> in_max, c |-> c, zx |-> FZero, zy |-> FZero,
     i |-> 0, stage |-> "iterate", channels |-> <<>>, color |-> <<>>]

\* EscapeCondition with <= 4.0 for < 4.0
EscapeConditionInclusive(px) ==
    /\ ~NLt(F_4_0, NAdd(NMul(px.zx, px.zx), NMul(px.zy, px.zy)))
    /\ px.i < MAX_ITERATIONS

\* EscapeCondition without `&& i < MAX_ITERATIONS`
EscapeConditionUnbounded(px) ==
    NLt(NAdd(NMul(px.zx, px.zx), NMul(px.zy, px.zy)), F_4_0)

\* zx * zx + zy * zy < 4.0 && i < MAX_ITERATIONS
EscapeCondition(px) ==
    /\ NLt(NAdd(NMul(px.zx, px.zx), NMul(px.zy, px.zy)), F_4_0)
    /\ px.i < MAX_ITERATIONS

\* one pass through the body of the while loop
EscapeIterate(px) ==
    LET temp_zx == NAdd(NSub(NMul(px.zx, px.zx), NMul(px.zy, px.zy)), px.c.x)
        zy      == NAdd(NMul(NMul(F_2_0, px.zx), px.zy), px.c.y)
    IN  [px EXCEPT !.zx = temp_zx, !.zy = zy, !.i = px.i + 1]

\* f32 operators of the color computation
FMul32(a, b) == FMulP(a, b, MantBits32)

FDiv32(a, b) == FDivP(a, b, MantBits32)

\* `x as u8` for a float x: truncation toward zero, saturating at 0 and 255
FToU8(a) == Min2(FToU32(a), 255)

\* n = i as f32 / MAX_ITERATIONS as f32
IterationFraction(i) == FDiv32(IntToF32(i), IntToF32(MAX_ITERATIONS))

\* ColorChannels with 10.0 for the 9.0 of r
ColorChannelsGain10(i) ==
    LET n     == FDiv32(IntToF32(i), IntToF32(MAX_ITERATIONS))
        m     == FSub32(IntToF32(1), n)
        F_255 == IntToF32(255)
        F_8_5 == FDiv32(IntToF32(17), IntToF32(2))
    IN  << FMul32(FMul32(FMul32(FMul32(FMul32(IntToF32(10), m), n), n), n), F_255),
           FMul32(FMul32(FMul32(FMul32(FMul32(IntToF32(15), m), m), n), n), F_255),
           FMul32(FMul32(FMul32(FMul32(FMul32(F_8_5, m), m), m), n), F_255) >>

\* the three f32 values the color's r, g, b are converted from
ColorChannels(i) ==
    LET n     == IterationFraction(i)
        m     == FSub32(IntToF32(1), n)
        F_255 == IntToF32(255)
        F_8_5 == FDiv32(IntToF32(17), IntToF32(2))
    IN  << FMul32(FMul32(FMul32(FMul32(FMul32(IntToF32(9), m), n), n), n), F_255),
           FMul32(FMul32(FMul32(FMul32(FMul32(IntToF32(15), m), m), n), n), F_255),
           FMul32(FMul32(FMul32(FMul32(FMul32(F_8_5, m), m), m), n), F_255) >>

\* let color = if i == MAX_ITERATIONS { [0, 0, 0, 255] } else { [r, g, b, 255] }
PixelColor(i) ==
    IF i = MAX_ITERATIONS THEN <<0, 0, 0, 255>>
    ELSE LET ch == ColorChannels(i)
         IN  <<FToU8(ch[1]), FToU8(ch[2]), FToU8(ch[3]), 255>>

\* ------------------------------------------------------------------------
\* State
\* ------------------------------------------------------------------------

VARIABLES
    view,             \* Res<ComplexPlaneView>: [center, scale]
    view_changed,     \* the view was added or written since resource_changed last looked
    last_pos,         \* handle_panning's Local<Option<Vec2>>
    pressed,          \* ButtonInput<MouseButton>: the left button is held
    window,           \* the window's logical size
    cursor_position,  \* window.cursor_position()
    cursor_events,    \* CursorMoved events sent for this tick
    cursor_unread,    \* CursorMoved events of the previous tick handle_panning has not read
    cursor_seen,      \* handle_panning's reader has read in this tick
    scroll_events,    \* MouseWheel events sent for this tick (their y)
    resize_events,    \* WindowResized events sent for this tick
    resize_unread,    \* events of the previous tick on_event's reader has not read
    resize_seen,      \* on_event's reader has read in this tick
    image,            \* the Image asset: descriptor size, data length, contents
    rendered,         \* what the last render pass drew: Some([view, width, height])
    panicked,         \* a render pass wrote outside the buffer
    pc,               \* "input": between ticks; "update": the Update schedule runs
    pending,          \* the systems of Update that have not run in this tick
    drew,             \* draw_mandelbrot_set ran in this tick
    tick_view,        \* the view when the tick's Update schedule started
    fresh_press,      \* no pointer sample processed since the last press
    inputs,           \* input events sent so far
    origin,           \* SpecPan: the stored position and the center before the drag out
    pixel             \* the renderer's work on one pixel: Some(record) once it has started

vars == <<view, view_changed, last_pos, pressed, window, cursor_position,
          cursor_events, cursor_unread, cursor_seen, scroll_events,
          resize_events, resize_unread, resize_seen, image, rendered, panicked,
          pc, pending, drew, tick_view, fresh_press, inputs, origin, pixel>>

\* ------------------------------------------------------------------------
\* Bounds and input sets
\* ------------------------------------------------------------------------

\* input events sent in a run
MaxInputs == 4

\* pointer events sent in a run of SpecPointer
MaxPointerInputs == 5

\* the window's size at startup (width, height), in pixels
InitialWidth == 4

InitialHeight == 3

\* the sizes a resize notification carries
ResizeSizes == { Size(2, 2), Size(InitialWidth, InitialHeight) }

\* the pixels the pointer is moved to
CursorPixels == { PixelPos(0, 0), PixelPos(2, 1) }

\* MouseWheel.y: one notch in, no vertical motion, ten notches in
ScrollDeltas == { IntToF32(1), IntToF32(0), IntToF32(10) }

Systems == { "handle_panning", "handle_zoom", "draw_mandelbrot_set", "on_window_resized" }

\* ------------------------------------------------------------------------
\* Startup
\* ------------------------------------------------------------------------

\* setup_mandelbrot_image: Image::new_fill at the window's size
InitialImage ==
    [width |-> InitialWidth, height |-> InitialHeight,
     len |-> InitialWidth * InitialHeight * 4, kind |-> "fill"]

Init ==
    /\ view = DefaultView
    /\ view_changed = TRUE
    /\ last_pos = None
    /\ pressed = FALSE
    /\ window = Size(InitialWidth, InitialHeight)
    /\ cursor_position = None
    /\ cursor_events = <<>>
    /\ cursor_unread = <<>>
    /\ cursor_seen = FALSE
    /\ scroll_events = <<>>
    /\ resize_events = <<>>
    /\ resize_unread = FALSE
    /\ resize_seen = FALSE
    /\ image = InitialImage
    /\ rendered = None
    /\ panicked = FALSE
    /\ pc = "input"
    /\ pending = {}
    /\ drew = FALSE
    /\ tick_view = DefaultView
    /\ fresh_press = FALSE
    /\ inputs = 0
    /\ origin = None
    /\ pixel = None

\* ------------------------------------------------------------------------
\* Input events, sent by the windowing collaborator between ticks
\* ------------------------------------------------------------------------

CanSendUpTo(n) == pc = "input" /\ inputs < n

CursorMovedUpTo(n) ==
    /\ CanSendUpTo(n)
    /\ \E p \in CursorPixels :
        /\ cursor_events' = Append(cursor_events, p)
        /\ cursor_position' = Some(p)
    /\ inputs' = inputs + 1
    /\ UNCHANGED <<view, view_changed, last_pos, pressed, window, cursor_unread,
                   cursor_seen, scroll_events, resize_events, resize_unread,
                   resize_seen, image, rendered, panicked, pc, pending, drew,
                   tick_view, fresh_press, origin, pixel>>

CursorLeftUpTo(n) ==
    /\ CanSendUpTo(n)
    /\ cursor_position # None
    /\ cursor_position' = None
    /\ inputs' = inputs + 1
    /\ UNCHANGED <<view, view_changed, last_pos, pressed, window, cursor_events,
                   cursor_unread, cursor_seen, scroll_events, resize_events,
                   resize_unread, resize_seen, image, rendered, panicked, pc,
                   pending, drew, tick_view, fresh_press, origin, pixel>>

ButtonPressedUpTo(n) ==
    /\ CanSendUpTo(n)
    /\ ~pressed
    /\ pressed' = TRUE
    /\ fresh_press' = TRUE
    /\ inputs' = inputs + 1
    /\ UNCHANGED <<view, view_changed, last_pos, window, cursor_position,
                   cursor_events, cursor_unread, cursor_seen, scroll_events,
                   resize_events, resize_unread, resize_seen, image, rendered,
                   panicked, pc, pending, drew, tick_view, origin, pixel>>

ButtonReleasedUpTo(n) ==
    /\ CanSendUpTo(n)
    /\ pressed
    /\ pressed' = FALSE
    /\ inputs' = inputs + 1
    /\ UNCHANGED <<view, view_changed, last_pos, window, cursor_position,
                   cursor_events, cursor_unread, cursor_seen, scroll_events,
                   resize_events, resize_unread, resize_seen, image, rendered,
                   panicked, pc, pending, drew, tick_view, fresh_press, origin, pixel>>

MouseWheel ==
    /\ CanSendUpTo(MaxInputs)
    /\ \E y \in ScrollDeltas : scroll_events' = Append(scroll_events, y)
    /\ inputs' = inputs + 1
    /\ UNCHANGED <<view, view_changed, last_pos, pressed, window, cursor_position,
                   cursor_events, cursor_unread, cursor_seen, resize_events,
                   resize_unread, resize_seen, image, rendered, panicked, pc,
                   pending, drew, tick_view, fresh_press, origin, pixel>>

WindowResized ==
    /\ CanSendUpTo(MaxInputs)
    /\ \E sz \in ResizeSizes :
        /\ sz # window
        /\ window' = sz
        /\ resize_events' = Append(resize_events, sz)
    /\ inputs' = inputs + 1
    /\ UNCHANGED <<view, view_changed, last_pos, pressed, cursor_position,
                   cursor_events, cursor_unread, cursor_seen, scroll_events,
                   resize_unread, resize_seen, image, rendered, panicked, pc,
                   pending, drew, tick_view, fresh_press, origin, pixel>>


\* ------------------------------------------------------------------------
\* The Update schedule: each of its four systems runs once per tick; main
\* adds them as a tuple with no ordering between them
\* ------------------------------------------------------------------------

\* Window::cursor_position(): the last reported position while it lies
\* inside the window
WindowCursorPosition ==
    IF /\ cursor_position # None
       /\ FLt(cursor_position[1].x, window.width)
       /\ FLt(cursor_position[1].y, window.height)
    THEN cursor_position
    ELSE None

BeginUpdate ==
    /\ pc = "input"
    /\ pc' = "update"
    /\ pending' = Systems
    /\ tick_view' = view
    /\ drew' = FALSE
    /\ UNCHANGED <<view, view_changed, last_pos, pressed, window, cursor_position,
                   cursor_events, cursor_unread, cursor_seen, scroll_events,
                   resize_events, resize_unread, resize_seen, image, rendered,
                   panicked, fresh_press, inputs, origin, pixel>>

\* what cursor_events.read() yields: the unread events still buffered
PanningEvents == cursor_unread \o cursor_events

HandlePanning ==
    /\ pc = "update"
    /\ "handle_panning" \in pending
    /\ LET r == PanningResult(view, last_pos, pressed, PanningEvents, window)
       IN  /\ view' = r.view
           /\ last_pos' = r.last_pos
           /\ view_changed' = (view_changed \/ r.wrote)
    /\ cursor_seen' = (cursor_seen \/ pressed)
    /\ cursor_unread' = IF pressed THEN <<>> ELSE cursor_unread
    /\ fresh_press' = (fresh_press /\ ~(pressed /\ PanningEvents # <<>>))
    /\ pending' = pending \ {"handle_panning"}
    /\ UNCHANGED <<pressed, window, cursor_position, cursor_events, scroll_events,
                   resize_events, resize_unread, resize_seen, image, rendered,
                   panicked, pc, drew, tick_view, inputs, origin, pixel>>

HandleZoom ==
    /\ pc = "update"
    /\ "handle_zoom" \in pending
    /\ view' = ZoomAll(view, window, WindowCursorPosition, scroll_events)
    /\ view_changed' =
          (view_changed \/ (scroll_events # <<>> /\ WindowCursorPosition # None))
    /\ pending' = pending \ {"handle_zoom"}
    /\ UNCHANGED <<last_pos, pressed, window, cursor_position, cursor_events,
                   cursor_unread, cursor_seen, scroll_events, resize_events,
                   resize_unread, resize_seen, image, rendered, panicked, pc,
                   drew, tick_view, fresh_press, inputs, origin, pixel>>

OnWindowResized ==
    /\ pc = "update"
    /\ "on_window_resized" \in pending
    /\ image' = IF resize_events # <<>>
                THEN ResizedImage(image, resize_events[Len(resize_events)])
                ELSE image
    /\ pending' = pending \ {"on_window_resized"}
    /\ UNCHANGED <<view, view_changed, last_pos, pressed, window, cursor_position,
                   cursor_events, cursor_unread, cursor_seen, scroll_events,
                   resize_events, resize_unread, resize_seen, rendered, panicked,
                   pc, drew, tick_view, fresh_press, inputs, origin, pixel>>

\* on_event::<WindowResized>(): its reader has events it has not read
OnEventWindowResized == resize_unread \/ (resize_events # <<>> /\ ~resize_seen)

\* resource_changed::<ComplexPlaneView>.or_else(on_event::<WindowResized>())
RunCondition == view_changed \/ OnEventWindowResized

\* the image a render pass leaves
RenderedImage(img) ==
    [width |-> img.width, height |-> img.height, len |-> img.len, kind |-> "rendered"]

\* draw_mandelbrot_set.run_if(...): the condition is evaluated, and the
\* system runs if it holds.  or_else evaluates on_event only if
\* resource_changed is false, so only then does on_event's reader read.
DrawMandelbrotSet ==
    /\ pc = "update"
    /\ "draw_mandelbrot_set" \in pending
    /\ view_changed' = FALSE
    /\ resize_seen' = (resize_seen \/ ~view_changed)
    /\ resize_unread' = (resize_unread /\ view_changed)
    /\ IF RunCondition
       THEN /\ image' = RenderedImage(image)
            /\ rendered' = Some([view |-> view, width |-> image.width,
                                 height |-> image.height])
            /\ panicked' = (panicked \/ RenderPanics(image))
            /\ drew' = TRUE
       ELSE UNCHANGED <<image, rendered, panicked, drew>>
    /\ pending' = pending \ {"draw_mandelbrot_set"}
    /\ UNCHANGED <<view, last_pos, pressed, window, cursor_position,
                   cursor_events, cursor_unread, cursor_seen, scroll_events,
                   resize_events, pc, tick_view, fresh_press, inputs, origin, pixel>>

\* the tick ends: the buffer is handed to the display, and the event
\* buffers age (an event can be read in the tick it was sent for and the next)
EndTick ==
    /\ pc = "update"
    /\ pending = {}
    /\ pc' = "input"
    /\ cursor_unread' = IF cursor_seen THEN <<>> ELSE cursor_events
    /\ cursor_events' = <<>>
    /\ cursor_seen' = FALSE
    /\ scroll_events' = <<>>
    /\ resize_unread' = (resize_events # <<>> /\ ~resize_seen)
    /\ resize_events' = <<>>
    /\ resize_seen' = FALSE
    /\ UNCHANGED <<view, view_changed, last_pos, pressed, window, cursor_position,
                   image, rendered, panicked, pending, drew, tick_view,
                   fresh_press, inputs, origin, pixel>>

CursorMoved == CursorMovedUpTo(MaxInputs)

CursorLeft == CursorLeftUpTo(MaxInputs)

ButtonPressed == ButtonPressedUpTo(MaxInputs)

ButtonReleased == ButtonReleasedUpTo(MaxInputs)

Next ==
    \/ CursorMoved
    \/ CursorLeft
    \/ ButtonPressed
    \/ ButtonReleased
    \/ MouseWheel
    \/ WindowResized
    \/ BeginUpdate
    \/ HandlePanning
    \/ HandleZoom
    \/ OnWindowResized
    \/ DrawMandelbrotSet
    \/ EndTick

Spec == Init /\ [][Next]_vars

\* the same program when only pointer events are sent (no scroll, no
\* resize), with a larger budget of events
PointerCursorMoved == CursorMovedUpTo(MaxPointerInputs)

PointerCursorLeft == CursorLeftUpTo(MaxPointerInputs)

PointerButtonPressed == ButtonPressedUpTo(MaxPointerInputs)

PointerButtonReleased == ButtonReleasedUpTo(MaxPointerInputs)

PointerNext ==
    \/ PointerCursorMoved
    \/ PointerCursorLeft
    \/ PointerButtonPressed
    \/ PointerButtonReleased
    \/ BeginUpdate
    \/ HandlePanning
    \/ HandleZoom
    \/ OnWindowResized
    \/ DrawMandelbrotSet
    \/ EndTick

SpecPointer == Init /\ [][PointerNext]_vars


\* ------------------------------------------------------------------------
\* Comparing floats up to rounding
\* ------------------------------------------------------------------------

\* the least ex with |a| < 2^ex (EMin for zero)
MagExp(a) == IF a.m = 0 THEN EMin ELSE Max2(BitLen(Abs(a.m)) + a.e, EMin)

\* |a - b| <= k * 2^ex, decided exactly when the exponents of a and b are
\* close enough for the difference to be formed, and by the sufficient
\* condition 2 * max(|a|, |b|) <= k * 2^ex otherwise
AbsDiffLe(a, b, k, ex) ==
    LET lo_e == Min2(a.e, b.e)
        hi   == IF a.e >= b.e THEN a ELSE b
        tol  == [m |-> k, e |-> ex]
    IN  IF a = b THEN TRUE
        ELSE IF Max2(a.e, b.e) - lo_e > 29 - MantBits
        THEN FLe([m |-> 2 * Abs(hi.m), e |-> hi.e], tol)
        ELSE FLe([m |-> Abs(a.m * (2 ^ (a.e - lo_e)) - b.m * (2 ^ (b.e - lo_e))),
                  e |-> lo_e], tol)

\* the exponent of one rounding unit of a magnitude below 2^ex
UnitExp(ex) == Max2(ex - MantBits, EMin)


\* ------------------------------------------------------------------------
\* handle_zoom on its own: one scroll event per step, from any view of
\* ZoomViews, any window of ZoomWindows and any cursor pixel inside it
\* ------------------------------------------------------------------------

\* scroll events processed in a run of SpecZoom
MaxZoomEvents == 2

ZoomCenters ==
    { DefaultView.center,
      Vec(FZero, FZero),
      Vec(FDiv(IntToF(1), IntToF(3)), FDiv(IntToF(0 - 2), IntToF(3))) }

ZoomScales == { DefaultView.scale, IntToF(1), FDiv(IntToF(1), IntToF(3)) }

ZoomViews == { [center |-> c, scale |-> sc] : c \in ZoomCenters, sc \in ZoomScales }

ZoomWindows == { Size(InitialWidth, InitialHeight), Size(2, 2), Size(3, 5) }

\* MouseWheel.y: notches in and out, none, and large deltas (pixel scrolling)
ZoomDeltas == { IntToF32(1), IntToF32(0 - 1), IntToF32(0), IntToF32(3),
                IntToF32(10), IntToF32(20) }

\* the whole pixels inside a window
PixelsInside(win) ==
    { PixelPos(px, py) : px \in 0 .. (FToU32(win.width) - 1),
                         py \in 0 .. (FToU32(win.height) - 1) }

ZoomInit ==
    /\ view \in ZoomViews
    /\ window \in ZoomWindows
    /\ cursor_position \in { Some(p) : p \in PixelsInside(window) }
    /\ view_changed = TRUE
    /\ last_pos = None
    /\ pressed = FALSE
    /\ cursor_events = <<>>
    /\ cursor_unread = <<>>
    /\ cursor_seen = FALSE
    /\ scroll_events = <<>>
    /\ resize_events = <<>>
    /\ resize_unread = FALSE
    /\ resize_seen = FALSE
    /\ image = InitialImage
    /\ rendered = None
    /\ panicked = FALSE
    /\ pc = "zoom"
    /\ pending = {}
    /\ drew = FALSE
    /\ tick_view = view
    /\ fresh_press = FALSE
    /\ inputs = 0
    /\ origin = None
    /\ pixel = None

\* a scroll event is sent and handle_zoom processes it
ZoomScroll ==
    /\ pc = "zoom"
    /\ inputs < MaxZoomEvents
    /\ \E y \in ZoomDeltas :
        /\ scroll_events' = <<y>>
        /\ view' = ZoomAll(view, window, WindowCursorPosition, <<y>>)
    /\ view_changed' = (view_changed \/ WindowCursorPosition # None)
    /\ inputs' = inputs + 1
    /\ UNCHANGED <<last_pos, pressed, window, cursor_position, cursor_events,
                   cursor_unread, cursor_seen, resize_events, resize_unread,
                   resize_seen, image, rendered, panicked, pc, pending, drew,
                   tick_view, fresh_press, origin, pixel>>

ZoomNext == ZoomScroll

SpecZoom == ZoomInit /\ [][ZoomNext]_vars


\* ------------------------------------------------------------------------
\* handle_panning on its own: with the button held and a position stored,
\* one tick drags the pointer to another pixel and the next tick drags it
\* back, from any view of ZoomViews and any window of ZoomWindows
\* ------------------------------------------------------------------------

PanInit ==
    /\ view \in ZoomViews
    /\ window \in ZoomWindows
    /\ last_pos \in { Some(p) : p \in PixelsInside(window) }
    /\ cursor_position = last_pos
    /\ pressed = TRUE
    /\ view_changed = TRUE
    /\ cursor_events = <<>>
    /\ cursor_unread = <<>>
    /\ cursor_seen = FALSE
    /\ scroll_events = <<>>
    /\ resize_events = <<>>
    /\ resize_unread = FALSE
    /\ resize_seen = FALSE
    /\ image = InitialImage
    /\ rendered = None
    /\ panicked = FALSE
    /\ pc = "drag"
    /\ pending = {}
    /\ drew = FALSE
    /\ tick_view = view
    /\ fresh_press = FALSE
    /\ inputs = 0
    /\ origin = None
    /\ pixel = None

\* a tick in which the pointer has moved to p and handle_panning runs
PanTick(p) ==
    LET r == PanningResult(view, last_pos, pressed, <<p>>, window)
    IN  /\ cursor_position' = Some(p)
        /\ cursor_events' = <<p>>
        /\ view' = r.view
        /\ last_pos' = r.last_pos
        /\ view_changed' = (view_changed \/ r.wrote)
        /\ tick_view' = view
        /\ inputs' = inputs + 1
        /\ UNCHANGED <<pressed, window, cursor_unread, cursor_seen, scroll_events,
                       resize_events, resize_unread, resize_seen, image, rendered,
                       panicked, pending, drew, fresh_press, pixel>>

PanDragOut ==
    /\ pc = "drag"
    /\ \E p \in PixelsInside(window) \ {last_pos[1]} : PanTick(p)
    /\ origin' = Some([pos |-> last_pos[1], center |-> view.center])
    /\ pc' = "back"

PanDragBack ==
    /\ pc = "back"
    /\ PanTick(origin[1].pos)
    /\ pc' = "done"
    /\ UNCHANGED origin

PanNext == PanDragOut \/ PanDragBack

SpecPan == PanInit /\ [][PanNext]_vars


\* ------------------------------------------------------------------------
\* SpecRender: a render pass of draw_mandelbrot_set, followed on one pixel
\* of its loops (the pixels share no state), for the views of RenderViews
\* and every buffer size up to MaxRenderSide
\* ------------------------------------------------------------------------

\* the largest buffer width and height of SpecRender
MaxRenderSide == 4

\* the default view, a view zoomed in below the resolution of its center,
\* and a view with no coordinate a power of two
RenderViews ==
    { DefaultView,
      [center |-> Vec(IntToF(1), FDiv(IntToF(1), IntToF(10))),
       scale  |-> Norm(1, 0 - (MantBits + 2), MantBits)],
      [center |-> Vec(FDiv(IntToF(1), IntToF(10)), FDiv(IntToF(0 - 3), IntToF(10))),
       scale  |-> FDiv(IntToF(7), IntToF(10))] }

\* a buffer of width x height pixels
BufferOf(width, height) ==
    [width |-> width, height |-> height, len |-> width * height * 4, kind |-> "resized"]

\* the state outside view, image, pc and pixel in the specifications of the renderer
RendererIdle ==
    /\ window = Size(InitialWidth, InitialHeight)
    /\ view_changed = TRUE
    /\ last_pos = None
    /\ pressed = FALSE
    /\ cursor_position = None
    /\ cursor_events = <<>>
    /\ cursor_unread = <<>>
    /\ cursor_seen = FALSE
    /\ scroll_events = <<>>
    /\ resize_events = <<>>
    /\ resize_unread = FALSE
    /\ resize_seen = FALSE
    /\ rendered = None
    /\ panicked = FALSE
    /\ pending = {}
    /\ drew = FALSE
    /\ tick_view = view
    /\ fresh_press = FALSE
    /\ inputs = 0
    /\ origin = None

RenderInit ==
    /\ view \in RenderViews
    /\ image \in { BufferOf(w, h) : w \in 0 .. MaxRenderSide, h \in 0 .. MaxRenderSide }
    /\ pc = "render"
    /\ pixel = None
    /\ RendererIdle

\* the body of the loops `for y in 0..height { for x in 0..width {` reaches
\* pixel (x, y): cx and cy are computed
RenderPixel ==
    /\ pc = "render"
    /\ pixel = None
    /\ \E x \in 0 .. (image.width - 1), y \in 0 .. (image.height - 1) :
          pixel' = Some(PixelStart(x, y,
                                   PixelPlane(view, image.width, image.height, x, y),
                                   Vec(IntToF(image.width - 1), IntToF(image.height - 1))))
    /\ UNCHANGED <<view, view_changed, last_pos, pressed, window, cursor_position,
                   cursor_events, cursor_unread, cursor_seen, scroll_events,
                   resize_events, resize_unread, resize_seen, image, rendered,
                   panicked, pc, pending, drew, tick_view, fresh_press, inputs, origin>>

\* the while loop tests its condition and runs its body or exits
EscapeStep ==
    /\ pixel # None
    /\ pixel[1].stage = "iterate"
    /\ pixel' = Some(IF EscapeCondition(pixel[1])
                     THEN EscapeIterate(pixel[1])
                     ELSE [pixel[1] EXCEPT !.stage = "escaped"])
    /\ UNCHANGED <<view, view_changed, last_pos, pressed, window, cursor_position,
                   cursor_events, cursor_unread, cursor_seen, scroll_events,
                   resize_events, resize_unread, resize_seen, image, rendered,
                   panicked, pc, pending, drew, tick_view, fresh_press, inputs, origin>>

\* the color is computed from i and copied into the buffer at pixel_index
ColorPixel ==
    /\ pixel # None
    /\ pixel[1].stage = "escaped"
    /\ pixel' = Some([pixel[1] EXCEPT !.stage = "written",
                                      !.channels = IF pixel[1].i = MAX_ITERATIONS THEN <<>>
                                                   ELSE ColorChannels(pixel[1].i),
                                      !.color = PixelColor(pixel[1].i)])
    /\ panicked' = (panicked \/ PixelIndex(pixel[1].x, pixel[1].y, image.width) + 4 > image.len)
    /\ UNCHANGED <<view, view_changed, last_pos, pressed, window, cursor_position,
                   cursor_events, cursor_unread, cursor_seen, scroll_events,
                   resize_events, resize_unread, resize_seen, image, rendered,
                   pc, pending, drew, tick_view, fresh_press, inputs, origin>>

RenderNext == RenderPixel \/ EscapeStep \/ ColorPixel

SpecRender == RenderInit /\ [][RenderNext]_vars

\* ------------------------------------------------------------------------
\* SpecEscape: the while loop of draw_mandelbrot_set from chosen points c
\* ------------------------------------------------------------------------

\* the reference points (0,0), (2,0), (-1,0), and points inside, outside
\* and on the edge of the set
EscapePoints ==
    { Vec(IntToF(0), IntToF(0)), Vec(IntToF(2), IntToF(0)), Vec(IntToF(0 - 1), IntToF(0)),
      Vec(IntToF(0 - 2), IntToF(0)), Vec(IntToF(1), IntToF(1)),
      Vec(FDiv(IntToF(1), IntToF(4)), FDiv(IntToF(1), IntToF(2))),
      Vec(FDiv(IntToF(0 - 3), IntToF(4)), FDiv(IntToF(1), IntToF(10))),
      Vec(IntToF(3), IntToF(0 - 3)) }

EscapeInit ==
    /\ view = DefaultView
    /\ image = BufferOf(InitialWidth, InitialHeight)
    /\ pc = "render"
    /\ pixel \in { Some(PixelStart(0, 0, c, Vec(IntToF(InitialWidth - 1),
                                                IntToF(InitialHeight - 1)))) :
                     c \in EscapePoints }
    /\ RendererIdle

EscapeNext == EscapeStep \/ ColorPixel

SpecEscape == EscapeInit /\ [][EscapeNext]_vars

\* ------------------------------------------------------------------------
\* SpecColor: the color computation for every iteration count
\* ------------------------------------------------------------------------

ColorInit ==
    /\ view = DefaultView
    /\ image = BufferOf(InitialWidth, InitialHeight)
    /\ pc = "render"
    /\ pixel \in { Some([PixelStart(0, 0, Vec(FZero, FZero),
                                    Vec(IntToF(InitialWidth - 1), IntToF(InitialHeight - 1)))
                           EXCEPT !.i = i, !.stage = "escaped"]) :
                     i \in 0 .. MAX_ITERATIONS }
    /\ RendererIdle

ColorNext == ColorPixel

SpecColor == ColorInit /\ [][ColorNext]_vars

\* ------------------------------------------------------------------------
\* Properties
\* ------------------------------------------------------------------------

FPositive(a) == a.m > 0

FAbs(a) == [m |-> Abs(a.m), e |-> a.e]

\* a step in which system sys of the Update schedule runs
Runs(sys) == pc = "update" /\ sys \in pending /\ sys \notin pending'

\* C1 as stated: the plane point under the cursor pixel is the same under
\* the view before a scroll event and under the view after it, for every
\* view with scale > 0, window, cursor pixel inside it and scroll delta
C1_ZoomAnchorExact ==
    [][(FPositive(view.scale) /\ WindowCursorPosition # None)
        => CursorComplex(view', window, cursor_position[1])
             = CursorComplex(view, window, cursor_position[1])]_vars

\* 2^ZoomMagExp bounds |center.x|, |center.y|, scale and scale / aspect_ratio
ZoomMagExp(v, win) ==
    Max2(Max2(MagExp(v.center.x), MagExp(v.center.y)),
         Max2(MagExp(v.scale),
              MagExp(FDiv(v.scale, FDiv(F32ToF64(win.width), F32ToF64(win.height))))))

\* the rounding units allowed for one scroll event of delta ev_y
ZoomUnits(ev_y) == 8 + 40 * (FToU32(FAbs(ZoomFactor(ev_y))) + 1)

\* C1, amended: the two plane points agree up to rounding; each coordinate
\* differs by at most 8 + 40 * (floor(|zoom_factor|) + 1) rounding units of
\* the largest of |center.x|, |center.y|, scale and scale / aspect_ratio
C1_ZoomAnchorWithinRounding ==
    [][(FPositive(view.scale) /\ WindowCursorPosition # None /\ inputs' = inputs + 1)
        => LET before == CursorComplex(view, window, cursor_position[1])
               after  == CursorComplex(view', window, cursor_position[1])
               k      == ZoomUnits(scroll_events'[1])
               ex     == UnitExp(ZoomMagExp(view, window))
           IN  /\ AbsDiffLe(after.x, before.x, k, ex)
               /\ AbsDiffLe(after.y, before.y, k, ex)]_vars

\* a scroll event has been processed from a view with scale > 0 and moved
\* the view, and the plane point under the cursor is not bit for bit the same
C1_Witness ==
    /\ pc = "zoom"
    /\ inputs = 1
    /\ FPositive(tick_view.scale)
    /\ view # tick_view
    /\ CursorComplex(view, window, cursor_position[1])
         # CursorComplex(tick_view, window, cursor_position[1])

\* C2 as stated: view.scale > 0 in every reachable state
C2_ScalePositive == FPositive(view.scale)

\* C3 as stated: the first pointer sample handle_panning processes after a
\* press leaves view.center unchanged
C3_NoJumpOnFirstSample ==
    [][(Runs("handle_panning") /\ pressed /\ fresh_press /\ PanningEvents # <<>>)
        => view'.center = view.center]_vars

\* C4 as stated: a drag followed by the opposite drag, with the button held
\* and the width and the scale unchanged, restores view.center
C4_PanRoundTripExact == pc = "done" => view.center = origin[1].center

\* 2^PanMagExp bounds the coordinates of the centers c and d
PanMagExp(c, d) ==
    Max2(Max2(MagExp(c.x), MagExp(c.y)), Max2(MagExp(d.x), MagExp(d.y)))

\* C4, amended: the two drags restore view.center up to rounding; each
\* coordinate differs by at most 4 rounding units of the largest coordinate
\* of the center before the drag and of the center between the two drags
C4_PanRoundTripWithinRounding ==
    pc = "done" =>
        LET ex == UnitExp(PanMagExp(origin[1].center, tick_view.center))
        IN  /\ AbsDiffLe(view.center.x, origin[1].center.x, 4, ex)
            /\ AbsDiffLe(view.center.y, origin[1].center.y, 4, ex)
            /\ last_pos = Some(origin[1].pos)
            /\ view.scale = tick_view.scale

\* the two drags have happened, and the drag back moved the center
C4_Witness ==
    /\ pc = "done"
    /\ view.center # tick_view.center
    /\ view.center # origin[1].center

\* C5 as stated: a render pass runs only if the view differs from the view
\* of the last render pass (or nothing was rendered yet), or a resize
\* notification is unread
C5_RenderOnlyOnChange ==
    [][(~drew /\ drew')
        => \/ rendered = None
           \/ rendered[1].view # view
           \/ OnEventWindowResized]_vars

\* C6 as stated: when a tick changed the view, the buffer handed off at the
\* end of the tick is the render of the view as it stands then
C6_RenderFollowsControllers ==
    (pc = "input" /\ view # tick_view)
        => /\ drew
           /\ image.kind = "rendered"
           /\ rendered = Some([view |-> view, width |-> image.width,
                               height |-> image.height])

\* C7 as stated: a buffer left invalidated by a resize at the end of a tick
\* has a render pass coming without a further view change or resize
C7_ResizedBufferGetsRendered ==
    (pc = "input" /\ image.kind = "resized") => (view_changed \/ resize_unread)

\* C8: on_window_resized sets the buffer's width and height to the size of
\* the last resize notification and changes neither view.center nor
\* view.scale
C8_ResizeFrame ==
    [][(Runs("on_window_resized") /\ resize_events # <<>>)
        => /\ image'.width = FToU32(resize_events[Len(resize_events)].width)
           /\ image'.height = FToU32(resize_events[Len(resize_events)].height)
           /\ view' = view]_vars

\* on_window_resized has run on a resize notification of another size
C8_Witness ==
    /\ pc = "update"
    /\ "on_window_resized" \notin pending
    /\ resize_events # <<>>
    /\ image.kind = "resized"
    /\ image.width # InitialWidth
    /\ image.width = FToU32(window.width)

\* C9: the buffer holds width * height * 4 bytes, and every write of a
\* render pass lies inside it
C9_BufferSize ==
    /\ image.len = image.width * image.height * 4
    /\ \A wr \in RenderWrites(image) : 0 <= wr.lo /\ wr.hi <= image.len
    /\ ~panicked

\* a render pass has run on a buffer that a resize reallocated
C9_Witness ==
    /\ image.kind = "rendered"
    /\ image.width # InitialWidth
    /\ rendered # None
    /\ rendered[1].width = image.width

\* C10: handle_zoom run while the window has no cursor position leaves the
\* view as it is, whatever scroll events it reads
C10_ScrollWithoutCursorDropped ==
    [][(Runs("handle_zoom") /\ WindowCursorPosition = None)
        => /\ view' = view
           /\ view_changed' = view_changed]_vars

\* handle_zoom has run on scroll events with no cursor position
C10_Witness ==
    /\ pc = "update"
    /\ "handle_zoom" \notin pending
    /\ scroll_events # <<>>
    /\ WindowCursorPosition = None


\* C11 as stated: a render pass on a buffer of width or height 0 or 1
\* evaluates no pixel or maps the single column (row) to the view center;
\* width - 1 and height - 1 do not underflow and no coordinate is the
\* result of a division by zero
C11_DegenerateGeometryGuarded ==
    pixel # None =>
        /\ image.width >= 1 /\ image.height >= 1
        /\ image.width = 1 => pixel[1].c.x = view.center.x
        /\ image.height = 1 => pixel[1].c.y = view.center.y
        /\ ~IsNaN(pixel[1].c.x) /\ ~IsNaN(pixel[1].c.y)

\* C12 as stated: no render pass runs while view.scale <= 0
C12_NoRenderAtNonPositiveScale ==
    [][(~drew /\ drew') => FPositive(view.scale)]_vars

\* the while loop has exited on pixel[1]
LoopExited == pixel # None /\ pixel[1].stage # "iterate"

\* C13: the loop exits with i = MAX_ITERATIONS for c = (0,0), i = 1 for
\* c = (2,0) and i = MAX_ITERATIONS for c = (-1,0)
C13_EscapeReferenceValues ==
    LoopExited =>
        /\ pixel[1].c = Vec(IntToF(0), IntToF(0)) => pixel[1].i = MAX_ITERATIONS
        /\ pixel[1].c = Vec(IntToF(2), IntToF(0)) => pixel[1].i = 1
        /\ pixel[1].c = Vec(IntToF(0 - 1), IntToF(0)) => pixel[1].i = MAX_ITERATIONS

\* the loop has exited for c = (2,0), after one iteration
C13_Witness ==
    /\ LoopExited
    /\ pixel[1].c = Vec(IntToF(2), IntToF(0))
    /\ pixel[1].i = 1
    /\ pixel[1].zx = IntToF(2)

\* C14: for every point c (no coordinate NaN) the count i stays in
\* 0 .. MAX_ITERATIONS, the loop exits once i = MAX_ITERATIONS, and an exit
\* with i < MAX_ITERATIONS has zx*zx + zy*zy >= 4
C14_EscapeLoopBound ==
    pixel # None =>
        /\ pixel[1].i \in 0 .. MAX_ITERATIONS
        /\ pixel[1].i = MAX_ITERATIONS => ~EscapeCondition(pixel[1])
        /\ (/\ LoopExited
            /\ pixel[1].i < MAX_ITERATIONS
            /\ ~IsNaN(pixel[1].c.x) /\ ~IsNaN(pixel[1].c.y))
           => FLe(F_4_0, FAdd(FMul(pixel[1].zx, pixel[1].zx),
                              FMul(pixel[1].zy, pixel[1].zy)))

\* the loop has exited by the bound for one pixel of a buffer
C14_Witness ==
    /\ LoopExited
    /\ pixel[1].i = MAX_ITERATIONS
    /\ image.width > 1

\* C15: i = MAX_ITERATIONS gives (0,0,0,255); for i < MAX_ITERATIONS the
\* three values r, g, b are converted from lie in [0, 255], the conversion
\* only truncates them, and alpha is 255
C15_ColorRange ==
    (pixel # None /\ pixel[1].stage = "written") =>
        IF pixel[1].i = MAX_ITERATIONS
        THEN pixel[1].color = <<0, 0, 0, 255>>
        ELSE /\ \A k \in 1 .. 3 :
                  /\ FLe(FZero, pixel[1].channels[k])
                  /\ FLe(pixel[1].channels[k], IntToF32(255))
                  /\ pixel[1].color[k] = FToU32(pixel[1].channels[k])
             /\ pixel[1].color[4] = 255

\* a color with a bright red channel has been computed
C15_Witness ==
    /\ pixel # None
    /\ pixel[1].stage = "written"
    /\ pixel[1].i < MAX_ITERATIONS
    /\ pixel[1].color[1] > 200


\* a pixel of a buffer with width, height > 1 is being rendered under a
\* view with scale > 0
MappedPixel ==
    /\ pixel # None
    /\ image.width > 1
    /\ image.height > 1
    /\ FPositive(view.scale)

SpanMagExp(lo, hi) ==
    Max2(Max2(MagExp(lo), MagExp(hi)), MagExp(FSub(hi, lo)))

C17_ZoomUsesRendererMapping ==
    (/\ WindowCursorPosition # None
     /\ FToU32(window.width) > 1
     /\ FToU32(window.height) > 1)
    => LET zoomed == CursorComplex(view, window, cursor_position[1])
           mapped == PixelPlane(view, FToU32(window.width), FToU32(window.height),
                                FToU32(cursor_position[1].x),
                                FToU32(cursor_position[1].y))
           ex     == UnitExp(ZoomMagExp(view, window))
       IN  /\ AbsDiffLe(zoomed.x, mapped.x, 8, ex)
           /\ AbsDiffLe(zoomed.y, mapped.y, 8, ex)


\* C18 as stated, read up to rounding: the view a tick ends with does not
\* depend on the order of handle_panning and handle_zoom; when handle_zoom
\* runs first, the view handle_panning then produces agrees, within 16
\* rounding units of the view's extent, with the view of the other order
C18_ControllerOrderIrrelevant ==
    [][(Runs("handle_zoom") /\ "handle_panning" \in pending)
        => LET zoom_first == PanningResult(view', last_pos, pressed,
                                           PanningEvents, window).view
               pan_first  == ZoomAll(PanningResult(view, last_pos, pressed,
                                                   PanningEvents, window).view,
                                     window, WindowCursorPosition, scroll_events)
               ex         == UnitExp(ZoomMagExp(view, window))
           IN  /\ AbsDiffLe(zoom_first.center.x, pan_first.center.x, 16, ex)
               /\ AbsDiffLe(zoom_first.center.y, pan_first.center.y, 16, ex)
               /\ AbsDiffLe(zoom_first.scale, pan_first.scale, 16, ex)]_vars


\* C19: handle_panning run with the button held, a position p stored and
\* pointer events unread uses the last event q only: center becomes
\* center - ((q.x - p.x), -(q.y - p.y)) * (scale / window_width), scale is
\* unchanged, q is stored, and the events before q have no effect
C19_LastPointerEventWins ==
    [][(Runs("handle_panning") /\ pressed /\ last_pos # None /\ PanningEvents # <<>>)
        => LET q  == PanningEvents[Len(PanningEvents)]
               p  == last_pos[1]
               k  == FDiv(view.scale, F32ToF64(window.width))
               dx == F32ToF64(FSub32(q.x, p.x))
               dy == FNeg(F32ToF64(FSub32(q.y, p.y)))
           IN  /\ view'.center = Vec(FSub(view.center.x, FMul(dx, k)),
                                     FSub(view.center.y, FMul(dy, k)))
               /\ view'.scale = view.scale
               /\ last_pos' = Some(q)
               /\ PanningResult(view, last_pos, pressed, <<q>>, window)
                    = [view |-> view', last_pos |-> last_pos', wrote |-> TRUE]]_vars

\* handle_panning has run on two different pointer positions with a
\* position stored, and moved the center
C19_Witness ==
    /\ pc = "update"
    /\ "handle_panning" \notin pending
    /\ "handle_zoom" \in pending
    /\ pressed
    /\ Len(cursor_events) >= 2
    /\ cursor_events[1] # cursor_events[Len(cursor_events)]
    /\ last_pos = Some(cursor_events[Len(cursor_events)])
    /\ view.center # tick_view.center

\* C20 as stated: handle_panning run with the button not pressed stores
\* None and leaves the view unchanged, and no position recorded before a
\* release is stored when handle_panning starts on the press that follows it
C20_DragSessionReset ==
    [][/\ (Runs("handle_panning") /\ ~pressed)
            => (last_pos' = None /\ view' = view /\ view_changed' = view_changed)
       /\ (Runs("handle_panning") /\ pressed /\ fresh_press)
            => last_pos = None]_vars

====
